---- MODULE Spec2Model ----
(***************************************************************************)
(* Model of dcm2bids.py: the two-pass DICOM -> BIDS reorganisation.        *)
(*                                                                         *)
(* Python strings are modelled as sequences of one-character strings, so   *)
(* that substring tests, str.replace, str.split and the os.path helpers    *)
(* are computed as the code computes them.  A Python value that is "falsy" *)
(* because it is an empty list ([]) is the empty sequence << >>.            *)
(***************************************************************************)
EXTENDS Integers, Sequences, FiniteSets, TLC

(***************************************************************************)
(* Python string primitives                                                *)
(***************************************************************************)

\* s[i:]  (1-based i)
From(s, i) == SubSeq(s, i, Len(s))

\* s.startswith(t)
StartsWith(s, t) == Len(t) <= Len(s) /\ SubSeq(s, 1, Len(t)) = t

\* s.endswith(t)
EndsWith(s, t) == Len(t) <= Len(s) /\ SubSeq(s, Len(s) - Len(t) + 1, Len(s)) = t

\* t in s  (substring test on strings)
Contains(s, t) == \E i \in 1..(Len(s) - Len(t) + 1) : SubSeq(s, i, i + Len(t) - 1) = t

\* s.replace(old, new): every non-overlapping occurrence, left to right
RECURSIVE Replace(_, _, _)
Replace(s, old, new) ==
    IF Len(s) < Len(old) THEN s
    ELSE IF StartsWith(s, old) THEN new \o Replace(From(s, Len(old) + 1), old, new)
    ELSE <<Head(s)>> \o Replace(Tail(s), old, new)

\* s.split(sep)
RECURSIVE SplitAcc(_, _, _)
SplitAcc(s, sep, cur) ==
    IF s = <<>> THEN <<cur>>
    ELSE IF StartsWith(s, sep) THEN <<cur>> \o SplitAcc(From(s, Len(sep) + 1), sep, <<>>)
    ELSE SplitAcc(Tail(s), sep, Append(cur, Head(s)))

Split(s, sep) == SplitAcc(s, sep, <<>>)

\* index of the last occurrence of the character c in s, 0 when there is none
LastIndex(s, c) ==
    IF \E i \in 1..Len(s) : s[i] = c
    THEN CHOOSE i \in 1..Len(s) : s[i] = c /\ \A j \in (i + 1)..Len(s) : s[j] # c
    ELSE 0

\* index of the first occurrence of the character c in s, 0 when there is none
FirstIndex(s, c) ==
    IF \E i \in 1..Len(s) : s[i] = c
    THEN CHOOSE i \in 1..Len(s) : s[i] = c /\ \A j \in 1..(i - 1) : s[j] # c
    ELSE 0

\* s.rsplit(c, 1) for a string that holds c
SplitAt(s, i) == <<SubSeq(s, 1, i - 1), From(s, i + 1)>>

RSplit1(s, c) == SplitAt(s, LastIndex(s, c))

\* s.strip(c) for a one-character c
RECURSIVE LStrip(_, _)
LStrip(s, c) == IF s # <<>> /\ Head(s) = c THEN LStrip(Tail(s), c) ELSE s

RECURSIVE RStrip(_, _)
RStrip(s, c) ==
    IF s # <<>> /\ s[Len(s)] = c THEN RStrip(SubSeq(s, 1, Len(s) - 1), c) ELSE s

Strip(s, c) == RStrip(LStrip(s, c), c)

\* os.path.basename(p), os.path.dirname(p)
Basename(p) == From(p, LastIndex(p, "/") + 1)

\* the head of os.path.split, stripped of trailing slashes unless it is the root
DirHead(head) ==
    IF head # <<>> /\ \E i \in 1..Len(head) : head[i] # "/" THEN RStrip(head, "/") ELSE head

Dirname(p) == DirHead(SubSeq(p, 1, LastIndex(p, "/")))

\* os.path.join(a, b)
PathJoin(a, b) ==
    IF StartsWith(b, <<"/">>) THEN b
    ELSE IF a = <<>> \/ EndsWith(a, <<"/">>) THEN a \o b
    ELSE a \o <<"/">> \o b

\* os.path.splitext(p): <<root, ext>>; the extension starts at the last dot of
\* the last path component, leading dots of that component not counted
SplitextAt(p, sep, dot) ==
    IF dot > sep /\ ~(\A i \in (sep + 1)..(dot - 1) : p[i] = ".")
    THEN <<SubSeq(p, 1, dot - 1), From(p, dot)>>
    ELSE <<p, <<>>>>

Splitext(p) == SplitextAt(p, LastIndex(p, "/"), LastIndex(p, "."))

Digits == <<"0", "1", "2", "3", "4", "5", "6", "7", "8", "9">>

IsDigit(c) == \E i \in 1..Len(Digits) : Digits[i] = c

DigitVal(c) == (CHOOSE i \in 1..Len(Digits) : Digits[i] = c) - 1

\* ''.join(filter(str.isdigit, s))
OnlyDigits(s) == SelectSeq(s, IsDigit)

\* int(s) succeeds only on a non-empty string of digits (no sign or blanks occur here)
IsInt(s) == s # <<>> /\ \A i \in 1..Len(s) : IsDigit(s[i])

RECURSIVE IntOf(_)
IntOf(s) == IF s = <<>> THEN 0 ELSE 10 * IntOf(SubSeq(s, 1, Len(s) - 1)) + DigitVal(s[Len(s)])

\* str(n) for n >= 0
RECURSIVE StrOf(_)
StrOf(n) == IF n < 10 THEN <<Digits[n + 1]>> ELSE StrOf(n \div 10) \o <<Digits[(n % 10) + 1]>>

\* str(n)
PyStr(n) == IF n < 0 THEN <<"-">> \o StrOf(0 - n) ELSE StrOf(n)

\* '%02d' % n for n >= 0
Fmt02(n) == IF n < 10 THEN <<"0">> \o StrOf(n) ELSE StrOf(n)

(***************************************************************************)
(* String constants of the program                                         *)
(***************************************************************************)

s_niigz == <<".","n","i","i",".","g","z">>

s_nii == <<".","n","i","i">>

s_nii_bare == <<"n","i","i">>

s_json == <<".","j","s","o","n">>

s_gz == <<".","g","z">>

s_bval == <<".","b","v","a","l">>

s_bvec == <<".","b","v","e","c">>

s_dd == <<"-","-">>

s_us == <<"_">>

s_dash == <<"-">>

s_run == <<"r","u","n","-">>

s_sub == <<"s","u","b","-">>

s_ses == <<"s","e","s","-">>

s_us_ses == <<"_","s","e","s","-">>

s_EXCLUDE == <<"E","X","C","L","U","D","E">>

s_EXCLUDE_DIR == <<"E","X","C","L","U","D","E","_","B","I","D","S","_","D","i","r","e","c","t","o","r","y">>

s_EXCLUDE_NAME == <<"E","X","C","L","U","D","E","_","B","I","D","S","_","N","a","m","e">>

s_UNASSIGNED == <<"U","N","A","S","S","I","G","N","E","D">>

s_func == <<"f","u","n","c">>

s_fmap == <<"f","m","a","p">>

s_anat == <<"a","n","a","t">>

s_dwi == <<"d","w","i">>

s_EP == <<"E","P">>

s_GR == <<"G","R">>

s_GR_IR == <<"G","R","_","I","R">>

s_SE == <<"S","E">>

s_task == <<"t","a","s","k">>

s_type == <<"t","y","p","e">>

s_unknown == <<"u","n","k","n","o","w","n">>

s_phasediff_nii == <<"_","p","h","a","s","e","d","i","f","f",".","n","i","i",".","g","z">>

s_phasediff_json == <<"_","p","h","a","s","e","d","i","f","f",".","j","s","o","n">>

s_magnitude_nii == <<"_","m","a","g","n","i","t","u","d","e",".","n","i","i",".","g","z">>

s_bold_nii == <<"_","b","o","l","d",".","n","i","i",".","g","z">>

s_events_tsv == <<"_","e","v","e","n","t","s",".","t","s","v">>

s_participants == <<"p","a","r","t","i","c","i","p","a","n","t","s",".","t","s","v">>

s_datadesc == <<"d","a","t","a","s","e","t","_","d","e","s","c","r","i","p","t","i","o","n",".","j","s","o","n">>

s_work == <<"w","o","r","k">>

s_conversion == <<"c","o","n","v","e","r","s","i","o","n">>

s_derivatives == <<"d","e","r","i","v","a","t","i","v","e","s">>

s_prot_json == <<"P","r","o","t","o","c","o","l","_","T","r","a","n","s","l","a","t","o","r",".","j","s","o","n">>

s_P == <<"P">>

s_M == <<"M">>

s_slash == <<"/">>

(***************************************************************************)
(* Filename helpers of the program                                         *)
(***************************************************************************)

\* strip_extensions(fname)
strip_gz(one) == IF one[2] = s_gz THEN Splitext(one[1])[1] ELSE one[1]

strip_extensions(fname) == strip_gz(Splitext(fname))

\* the list vals of parse_dcm2niix_fname: the basename without extensions,
\* split at '--'
dcm2niix_vals(fname) == Split(strip_extensions(Basename(fname)), s_dd)

\* parse_dcm2niix_fname raises IndexError when fewer than four fields exist
parse_dcm2niix_ok(fname) == Len(dcm2niix_vals(fname)) >= 4

\* parse_dcm2niix_fname(fname): subj_name, ser_desc, seq_name, ser_no
dcm2niix_fields(vals) ==
    [subj_name |-> vals[1], ser_desc |-> vals[2], seq_name |-> vals[3], ser_no |-> vals[4]]

parse_dcm2niix_fname(fname) == dcm2niix_fields(dcm2niix_vals(fname))

\* the key and the value parse_bids_fname files a field under, tmp being the
\* field split at '-'
bids_key_of(tmp) == IF Len(tmp) > 1 THEN tmp[1] ELSE s_type

bids_val_of(tmp) == IF Len(tmp) > 1 THEN tmp[2] ELSE tmp[1]

bids_key(kv) == bids_key_of(Split(kv, s_dash))

bids_val(kv) == bids_val_of(Split(kv, s_dash))

\* the dictionary of parse_bids_fname for the '_'-separated fields kvs; a
\* later field with the same key replaces an earlier one
bids_keys_of(kvs) ==
    [k \in {bids_key(kvs[i]) : i \in 1..Len(kvs)} |->
        bids_val(kvs[CHOOSE i \in 1..Len(kvs) :
                        /\ bids_key(kvs[i]) = k
                        /\ \A j \in (i + 1)..Len(kvs) : bids_key(kvs[j]) # k])]

\* parse_bids_fname(fname)
parse_bids_fname(fname) ==
    bids_keys_of(Split(Splitext(Splitext(Basename(fname))[1])[1], s_us))

\* the stub with run number n added
with_run(bids_stub, n) ==
    IF Contains(bids_stub, s_us)
    THEN RSplit1(bids_stub, "_")[1] \o s_us \o s_run \o Fmt02(n) \o s_us
            \o RSplit1(bids_stub, "_")[2]
    ELSE s_run \o Fmt02(n) \o s_us \o bids_stub

\* bids_add_run_number(bids_stub, ser_no)
bids_add_run_number(bids_stub, ser_no) == with_run(bids_stub, IntOf(OnlyDigits(ser_no)))

(***************************************************************************)
(* Run numbering (bids_run_conversion, the loop before the file loop)      *)
(*                                                                         *)
(* The source lines of the loop body are mis-indented ("if len(matches) >  *)
(* 1:" is followed by a "for" at the same column).  The loop is read as    *)
(* the statement the indentation of its last line gives: the "for" is the  *)
(* body of the "if".                                                       *)
(***************************************************************************)

\* matches = [i for i in range(len(filelist)) if ser_desc in filelist[i]],
\* as 1-based positions in increasing order
run_matches(files, ser_desc) ==
    SelectSeq([i \in 1..Len(files) |-> i], LAMBDA i : Contains(files[i], ser_desc))

\* run_suffix after "if len(matches) > 1: for i in range(len(matches)):
\* run_suffix[matches[i]] = i + 1"
number_matches(rs, matches) ==
    IF Len(matches) > 1
    THEN [i \in 1..Len(rs) |->
             IF \E j \in 1..Len(matches) : matches[j] = i
             THEN CHOOSE j \in 1..Len(matches) : matches[j] = i
             ELSE rs[i]]
    ELSE rs

\* one iteration of the loop, for the 0-based file_index k
dedup_iter(files, rs, k) ==
    number_matches(rs, run_matches(files, parse_dcm2niix_fname(files[k + 1]).ser_desc))

\* the table after iterations 0 .. k-1
RECURSIVE dedup_upto(_, _)
dedup_upto(files, k) ==
    IF k <= 0 THEN [i \in 1..Len(files) |-> 0]
    ELSE dedup_iter(files, dedup_upto(files, k - 1), k - 1)

\* the whole loop: for file_index in range(len(filelist)-1)
run_suffix_table(files) == dedup_upto(files, Len(files) - 1)

(***************************************************************************)
(* Directories of a run (main)                                             *)
(***************************************************************************)

s_root == <<"/","b">>

s_source == <<"s","o","u","r","c","e">>

s_dicom == <<"d","i","c","o","m">>

\* dcm_root_dir = os.path.realpath(args.indir)
dcm_root_dir == PathJoin(s_root, s_dicom)

\* bids_src_dir = os.path.realpath(args.outdir)
bids_src_dir == PathJoin(s_root, s_source)

bids_root_dir == Dirname(bids_src_dir)

bids_deriv_dir == PathJoin(PathJoin(bids_root_dir, s_derivatives), s_conversion)

work_dir == PathJoin(PathJoin(bids_root_dir, s_work), s_conversion)

prot_dict_json == PathJoin(bids_deriv_dir, s_prot_json)

\* sub_prefix, ses_prefix, work_conv_dir and bids_src_ses_dir of one unit;
\* SES is '' when session sub-directories are not used
sub_prefix(SID) == s_sub \o SID

ses_prefix(SES) == IF SES = <<>> THEN <<>> ELSE s_ses \o SES

work_conv_dir(SID, SES) == PathJoin(PathJoin(work_dir, sub_prefix(SID)), ses_prefix(SES))

bids_src_ses_dir(SID, SES) == PathJoin(PathJoin(bids_src_dir, sub_prefix(SID)), ses_prefix(SES))

(***************************************************************************)
(* Inputs: series descriptions, subjects, sidecars written by dcm2niix     *)
(***************************************************************************)

d_rest == <<"r","e","s","t">>

d_rest_ap == <<"r","e","s","t","_","a","p">>

d_t1 == <<"t","1">>

d_fmap == <<"f","m","a","p">>

d_dti == <<"d","t","i">>

n_s01 == <<"s","0","1">>

n_s02 == <<"s","0","2">>

n_pilot1 == <<"p","i","l","o","t","1">>

id_01 == <<"0","1">>

id_02 == <<"0","2">>

ses_a == <<"a">>

ses_b == <<"b">>

s_12 == <<"1","2">>

s_12a == <<"1","2","a">>

s_13 == <<"1","3">>

s_14 == <<"1","4">>

s_15 == <<"1","5">>

s_2 == <<"2">>

s_3 == <<"3">>

s_4 == <<"4">>

s_5 == <<"5">>

\* the largest number of image files of a working directory in SpecRuns
MaxFiles == 5

\* the number of runs of the program in one behaviour of Spec
MaxRuns == 3

\* the file name dcm2niix gives an image: -f '%n--%d--%q--%s', -z y
dcm2niix_name(name, desc, seq, serno) ==
    name \o s_dd \o desc \o s_dd \o seq \o s_dd \o serno \o s_niigz

VARIABLES
    world,      \* the study: session layout and the units with their raw series
    dcm,        \* how many units of the study lie under the DICOM root
    protFile,   \* Protocol_Translator.json: [present, map]
    wdirs,      \* directories that exist under the working directory
    wfs,        \* files under the working directory: path -> content
    dest,       \* files under the BIDS source directory: path -> content
    ddirs,      \* directories that exist under the BIDS source directory
    pc,         \* where the program is: "units", "dedup", "files", "done" when it
                \* has exited and nothing was touched since, "idle" otherwise
    overwrite,  \* --overwrite of the current run
    first_pass, \* first_pass of the current run
    prot_dict,  \* the in-memory protocol dictionary of the current run
    ui,         \* units of the current run already visited
    filelist,   \* filelist of the unit being processed
    file_index, \* file_index of the loop being executed
    run_suffix, \* run_suffix of the unit being processed
    broke,      \* the file loop was left by break
    runs,       \* runs of the program ended so far
    exit,       \* how the last run ended: "ok" or the exception
    last,       \* what the last step of the file loop did
    seen,       \* series descriptions met by the file loop in the current run
    start,      \* the file systems when the current run started
    prev        \* the run before the current one: its start and its end

vars == <<world, dcm, protFile, wdirs, wfs, dest, ddirs, pc, overwrite, first_pass,
          prot_dict, ui, filelist, file_index, run_suffix, broke, runs, exit, last,
          seen, start, prev>>

(***************************************************************************)
(* Files.  A file system is a function from paths to contents; a content   *)
(* is [kind, val]: an image or gradient table holds the identity of the    *)
(* data it was converted from, a JSON file the dictionary dumped into it.  *)
(***************************************************************************)

NoFiles == [p \in {} |-> 0]

\* os.path.isfile(p)
isfile(fs, p) == p \in DOMAIN fs

\* open(p, 'w') ... write ... close, and shutil.copy onto p
write_file(fs, p, c) == [q \in DOMAIN fs \cup {p} |-> IF q = p THEN c ELSE fs[q]]

\* a Python dict with string keys is a function; {} is the empty one
EmptyDict == [k \in {} |-> 0]

\* d[k] = v
dict_set(d, k, v) == [x \in DOMAIN d \cup {k} |-> IF x = k THEN v ELSE d[x]]

\* bids_read_json(fname): the dictionary, {} when the file cannot be read
bids_read_json(fs, fname) ==
    IF isfile(fs, fname) /\ fs[fname].kind = "json" THEN fs[fname].val ELSE EmptyDict

\* create_file of bids_write_json, safe_copy and bids_events_template
create_file(fs, fname, ow) == IF isfile(fs, fname) THEN ow ELSE TRUE

\* bids_write_json(fname, meta_dict, overwrite)
bids_write_json(fs, fname, meta_dict, ow) ==
    IF create_file(fs, fname, ow)
    THEN write_file(fs, fname, [kind |-> "json", val |-> meta_dict])
    ELSE fs

\* a safe_copy that keeps an existing file2 and copies beside it, under the
\* name bids_catch_duplicate would give
safe_copy_beside(from, file1, fs, file2, ow) ==
    IF ~isfile(from, file1)
    THEN [exc |-> "FileNotFoundError", fs |-> fs]
    ELSE IF isfile(fs, file2) /\ ~ow
    THEN [exc |-> "none", fs |-> write_file(fs, file2 \o <<"_", "2">>, from[file1])]
    ELSE [exc |-> "none", fs |-> write_file(fs, file2, from[file1])]

\* safe_copy(file1, file2, overwrite): shutil.copy raises FileNotFoundError
\* when file1 does not exist.  from is the file system of file1, fs of file2.
safe_copy(from, file1, fs, file2, ow) ==
    IF create_file(fs, file2, ow)
    THEN IF isfile(from, file1)
         THEN [exc |-> "none", fs |-> write_file(fs, file2, from[file1])]
         ELSE [exc |-> "FileNotFoundError", fs |-> fs]
    ELSE [exc |-> "none", fs |-> fs]

\* the events file of bids_events_template
events_fname(bold_fname) == Replace(bold_fname, s_bold_nii, s_events_tsv)

\* bids_events_template(bold_fname, overwrite): the three lines written are
\* fixed text
bids_events_template(fs, bold_fname, ow) ==
    IF create_file(fs, events_fname(bold_fname), ow)
    THEN write_file(fs, events_fname(bold_fname), [kind |-> "events", val |-> <<>>])
    ELSE fs

\* safe_mkdir(dname)
safe_mkdir(dirs, dname) == dirs \cup {dname}

(***************************************************************************)
(* Fieldmap echo times                                                     *)
(***************************************************************************)

\* bids_fmap_echotimes(src_phase_json_fname): TE1, TE2, or the exception
\* raised on the way (int() of a series number that is no number, a sidecar
\* without EchoTime)

\* a magnitude 1 file name that keeps the series number of the phase series
mag1_json_fname_same(f) ==
    f.subj_name \o s_dd \o f.ser_desc \o s_dd \o f.seq_name \o s_dd \o f.ser_no \o s_json

\* src_mag1_json_fname: the series number of the fields f lowered by one
mag1_json_fname(f) ==
    f.subj_name \o s_dd \o f.ser_desc \o s_dd \o f.seq_name \o s_dd
        \o PyStr(IntOf(f.ser_no) - 1) \o s_json

\* "Add TE1 key and rename TE2 key"
echotimes_of(mag1_dict, phase_dict) ==
    IF DOMAIN mag1_dict # {}
    THEN IF "EchoTime" \in DOMAIN mag1_dict /\ "EchoTime" \in DOMAIN phase_dict
         THEN [exc |-> "none", TE1 |-> mag1_dict.EchoTime, TE2 |-> phase_dict.EchoTime]
         ELSE [exc |-> "KeyError", TE1 |-> 0, TE2 |-> 0]
    ELSE [exc |-> "none", TE1 |-> 0, TE2 |-> 0]

\* bids_fmap_echotimes once the file name is parsed into the fields f
echotimes_parsed(fs, src_phase_json_fname, f) ==
    IF ~IsInt(f.ser_no)
    THEN [exc |-> "ValueError", TE1 |-> 0, TE2 |-> 0]
    ELSE echotimes_of(
             bids_read_json(fs, PathJoin(Dirname(src_phase_json_fname), mag1_json_fname(f))),
             bids_read_json(fs, src_phase_json_fname))

bids_fmap_echotimes(fs, src_phase_json_fname) ==
    IF ~isfile(fs, src_phase_json_fname)
    THEN [exc |-> "none", TE1 |-> 0, TE2 |-> 0]
    ELSE IF ~parse_dcm2niix_ok(src_phase_json_fname)
    THEN [exc |-> "IndexError", TE1 |-> 0, TE2 |-> 0]
    ELSE echotimes_parsed(fs, src_phase_json_fname,
                          parse_dcm2niix_fname(src_phase_json_fname))

(***************************************************************************)
(* IntendedFor values.  The third element of a dictionary entry is a       *)
(* string or a list of strings: [isstr, items], a string being the one     *)
(* item of items.                                                          *)
(***************************************************************************)

IFStr(s) == [isstr |-> TRUE, items |-> <<s>>]

IFList(l) == [isstr |-> FALSE, items |-> l]

\* 'UNASSIGNED' in bids_intendedfor: a substring test on a string, a
\* membership test on a list
has_unassigned(v) ==
    IF v.isstr THEN Contains(v.items[1], s_UNASSIGNED)
    ELSE \E i \in 1..Len(v.items) : v.items[i] = s_UNASSIGNED

\* bids_prefix of bids_run_conversion
bids_prefix(SID, SES) ==
    IF SES # <<>> THEN s_sub \o SID \o s_us_ses \o SES \o s_us ELSE s_sub \o SID \o s_us

\* "Add prefix and suffix to IntendedFor values": the value handed to
\* bids_purpose_handling
add_prefix(v, prefix) ==
    IF has_unassigned(v) THEN v
    ELSE IF v.isstr THEN IFStr(prefix \o v.items[1] \o s_niigz)
    ELSE IFList([i \in 1..Len(v.items) |->
                    IF ~Contains(v.items[i], s_niigz)
                    THEN prefix \o v.items[i] \o s_niigz
                    ELSE v.items[i]])

\* the dictionary entry after that code: a list is rewritten in place, and
\* the list is the one the dictionary holds; a string is rebound locally
entry_after(entry, prefix) ==
    IF entry[3].isstr THEN entry ELSE <<entry[1], entry[2], add_prefix(entry[3], prefix)>>

(***************************************************************************)
(* bids_purpose_handling                                                   *)
(***************************************************************************)

\* what bids_purpose_handling has decided when it reaches "Populate BIDS
\* source directory": the sidecar dictionary, the output names ([] is << >>),
\* whether bids_events_template was called, and the exception if one was
\* raised before.  base_plan is the state at the start of the function.
base_plan(info, bids_nii_fname, bids_json_fname) ==
    [exc |-> "none", events |-> FALSE, info |-> info,
     bids_nii_fname |-> bids_nii_fname, bids_json_fname |-> bids_json_fname,
     work_bval_fname |-> <<>>, bids_bval_fname |-> <<>>,
     work_bvec_fname |-> <<>>, bids_bvec_fname |-> <<>>]

\* bids_purpose == 'func'
func_plan(base, seq_name, bids_keys) ==
    IF seq_name = s_EP
    THEN [base EXCEPT !.events = TRUE,
                      !.info = dict_set(base.info, "TaskName",
                                        IF s_task \in DOMAIN bids_keys
                                        THEN bids_keys[s_task] ELSE s_unknown)]
    ELSE base

\* "Add IntendedFor field if requested through protocol translator"
link_info(info, bids_intendedfor) ==
    IF ~has_unassigned(bids_intendedfor)
    THEN dict_set(info, "IntendedFor", bids_intendedfor)
    ELSE info

\* echo 2, phase: "Read phase meta data", "Extract TE1 and TE2"
phasediff_plan(base, te) ==
    [base EXCEPT !.exc = te.exc,
                 !.bids_nii_fname = Replace(base.bids_nii_fname, s_niigz, s_phasediff_nii),
                 !.bids_json_fname = Replace(base.bids_json_fname, s_json, s_phasediff_json),
                 !.info = IF te.exc = "none"
                          THEN dict_set(dict_set(base.info, "EchoTime1", te.TE1),
                                        "EchoTime2", te.TE2)
                          ELSE base.info]

\* bids_purpose == 'fmap', base holding the dictionary with IntendedFor added
fmap_plan(fs, base, seq_name, work_json_fname) ==
    IF seq_name = s_GR
    THEN IF "EchoNumber" \in DOMAIN base.info
         THEN IF base.info.EchoNumber = 2
              THEN IF "ImageType" \notin DOMAIN base.info
                   THEN [base EXCEPT !.exc = "KeyError"]
                   ELSE IF Len(base.info.ImageType) < 3
                   THEN [base EXCEPT !.exc = "IndexError"]
                   ELSE IF Contains(base.info.ImageType[3], s_P)
                   THEN phasediff_plan(base, bids_fmap_echotimes(fs, work_json_fname))
                   ELSE \* "Echo 2 magnitude - discarding"
                        [base EXCEPT !.bids_nii_fname = <<>>, !.bids_json_fname = <<>>]
              ELSE base
         ELSE \* "Echo 1 magnitude"
              [base EXCEPT !.bids_nii_fname =
                               Replace(base.bids_nii_fname, s_niigz, s_magnitude_nii),
                           !.bids_json_fname = <<>>]
    ELSE base

\* bids_purpose == 'dwi'
dwi_plan(base, work_json_fname) ==
    [base EXCEPT !.work_bval_fname = Replace(work_json_fname, s_json, s_bval),
                 !.bids_bval_fname = Replace(base.bids_json_fname, s_json, s_bval),
                 !.work_bvec_fname = Replace(work_json_fname, s_json, s_bvec),
                 !.bids_bvec_fname = Replace(base.bids_json_fname, s_json, s_bvec)]

purpose_plan(fs, bids_purpose, bids_intendedfor, seq_name, work_json_fname, bids_nii_fname, bids_json_fname) ==
    IF bids_purpose = s_func
    THEN func_plan(base_plan(bids_read_json(fs, work_json_fname), bids_nii_fname,
                             bids_json_fname),
                   seq_name, parse_bids_fname(bids_nii_fname))
    ELSE IF bids_purpose = s_fmap
    THEN fmap_plan(fs,
                   base_plan(link_info(bids_read_json(fs, work_json_fname), bids_intendedfor),
                             bids_nii_fname, bids_json_fname),
                   seq_name, work_json_fname)
    ELSE IF bids_purpose = s_dwi
    THEN dwi_plan(base_plan(bids_read_json(fs, work_json_fname), bids_nii_fname,
                            bids_json_fname),
                  work_json_fname)
    ELSE base_plan(bids_read_json(fs, work_json_fname), bids_nii_fname, bids_json_fname)

\* "Populate BIDS source directory": the four placements in the order of the
\* code, each on the result r of the one before, stopping at the first
\* exception.  from is the working directory.
put_nii(from, fs, plan, work_nii_fname, ow) ==
    IF plan.bids_nii_fname # <<>>
    THEN safe_copy(from, work_nii_fname, fs, plan.bids_nii_fname, ow)
    ELSE [exc |-> "none", fs |-> fs]

\* bids_write_json(bids_json_fname, info): called without the overwrite flag,
\* so with its default False
put_json(r, plan) ==
    IF r.exc = "none" /\ plan.bids_json_fname # <<>>
    THEN [exc |-> "none", fs |-> bids_write_json(r.fs, plan.bids_json_fname, plan.info, FALSE)]
    ELSE r

put_bval(from, r, plan, ow) ==
    IF r.exc = "none" /\ plan.bids_bval_fname # <<>>
    THEN safe_copy(from, plan.work_bval_fname, r.fs, plan.bids_bval_fname, ow)
    ELSE r

put_bvec(from, r, plan, ow) ==
    IF r.exc = "none" /\ plan.bids_bvec_fname # <<>>
    THEN safe_copy(from, plan.work_bvec_fname, r.fs, plan.bids_bvec_fname, ow)
    ELSE r

populate(from, fs, plan, work_nii_fname, ow) ==
    put_bvec(from,
             put_bval(from, put_json(put_nii(from, fs, plan, work_nii_fname, ow), plan),
                      plan, ow),
             plan, ow)

\* the result of bids_purpose_handling: the exception raised, if any, the
\* BIDS source directory afterwards, and the plan it followed
handled(r, plan) == [exc |-> r.exc, fs |-> r.fs, plan |-> plan]

\* bids_purpose_handling from the plan on; the events file was written inside
\* the 'func' branch, before anything else
after_events(fs, plan, bids_nii_fname, ow) ==
    IF plan.events THEN bids_events_template(fs, bids_nii_fname, ow) ELSE fs

handle_plan(from, fs, plan, work_nii_fname, bids_nii_fname, ow) ==
    IF plan.exc = "none"
    THEN handled(populate(from, after_events(fs, plan, bids_nii_fname, ow), plan,
                          work_nii_fname, ow),
                 plan)
    ELSE [exc |-> plan.exc, fs |-> after_events(fs, plan, bids_nii_fname, ow), plan |-> plan]

\* bids_purpose_handling(...)
bids_purpose_handling(from, fs, bids_purpose, bids_intendedfor, seq_name, work_nii_fname, work_json_fname, bids_nii_fname, bids_json_fname, ow) ==
    handle_plan(from, fs,
                purpose_plan(from, bids_purpose, bids_intendedfor, seq_name,
                             work_json_fname, bids_nii_fname, bids_json_fname),
                work_nii_fname, bids_nii_fname, ow)

(***************************************************************************)
(* The study and the external converter                                    *)
(***************************************************************************)

s_ORIGINAL == <<"O","R","I","G","I","N","A","L">>

s_PRIMARY == <<"P","R","I","M","A","R","Y">>

s_F == <<"F">>

s_030Y == <<"0","3","0","Y">>

s_participant_id == <<"p","a","r","t","i","c","i","p","a","n","t","_","i","d">>

s_sex == <<"s","e","x">>

s_age == <<"a","g","e">>

x_task_rest_bold == <<"t","a","s","k","-","r","e","s","t","_","b","o","l","d">>

x_task_rest == <<"t","a","s","k","-","r","e","s","t">>

x_gre == <<"g","r","e">>

x_dwi == <<"d","w","i">>

x_T1w == <<"T","1","w">>

ImageTypeM == <<s_ORIGINAL, s_PRIMARY, s_M>>

ImageTypeP == <<s_ORIGINAL, s_PRIMARY, s_P>>

\* one acquired series: the fields of its file name, the sidecar dcm2niix
\* writes for it (echo times in units of 10 microseconds), and whether
\* dcm2niix writes gradient tables for it
Series(desc, seq, serno, info, tables) ==
    [desc |-> desc, seq |-> seq, serno |-> serno, info |-> info, tables |-> tables,
     sidecar |-> TRUE]

\* a series whose sidecar is not in the working directory
NoSidecar(s) == [s EXCEPT !.sidecar = FALSE]

\* a dual-echo fieldmap: echo 1 magnitude, echo 2 magnitude, phase difference
Fmap12 == Series(d_fmap, s_GR, s_12, [EchoTime |-> 492, ImageType |-> ImageTypeM], FALSE)

Fmap12a ==
    Series(d_fmap, s_GR, s_12a,
           [EchoTime |-> 738, EchoNumber |-> 2, ImageType |-> ImageTypeM], FALSE)

Fmap13 ==
    Series(d_fmap, s_GR, s_13,
           [EchoTime |-> 738, EchoNumber |-> 2, ImageType |-> ImageTypeP], FALSE)

Rest(serno) == Series(d_rest, s_EP, serno, [EchoTime |-> 3000, ImageType |-> ImageTypeM], FALSE)

Dti(serno, tables) ==
    Series(d_dti, s_EP, serno, [EchoTime |-> 8000, ImageType |-> ImageTypeM], tables)

T1(serno) == Series(d_t1, s_GR_IR, serno, [EchoTime |-> 298, ImageType |-> ImageTypeM], FALSE)

ScanA == <<Fmap12, Fmap12a, Fmap13, Rest(s_14), Rest(s_15)>>

ScanB == <<Fmap13, Dti(s_4, TRUE), T1(s_2)>>

ScanC == <<Rest(s_3), Dti(s_4, FALSE), T1(s_5)>>

ScanD == <<T1(s_2), NoSidecar(Rest(s_3)), Dti(s_4, TRUE)>>

ScanE == <<T1(s_5)>>

\* one unit: a subject directory, or a session directory of a subject
Unit(SID, SES, name, scan) ==
    [SID |-> SID, SES |-> SES, name |-> name, sex |-> s_F, age |-> s_030Y,
     readable |-> TRUE, scan |-> scan]

Worlds ==
    { [no_sessions |-> TRUE,
       units |-> <<Unit(id_01, <<>>, n_s01, ScanA), Unit(id_02, <<>>, n_s02, ScanB)>>],
      [no_sessions |-> FALSE,
       units |-> <<Unit(id_01, ses_a, n_s01, ScanA), Unit(id_01, ses_b, n_s01, ScanC)>>],
      [no_sessions |-> TRUE,
       units |-> <<Unit(id_01, <<>>, n_s01, ScanC), Unit(id_02, <<>>, n_s02, ScanA)>>],
      [no_sessions |-> TRUE,
       units |-> <<Unit(id_01, <<>>, n_s01, ScanD), Unit(id_02, <<>>, n_s02, ScanE)>>] }

\* the files dcm2niix writes for one series: the image nii, the sidecar and,
\* for a series with gradient tables, the two tables
series_files_at(nii, stem, s) ==
    IF s.tables
    THEN (nii :> [kind |-> "nii", val |-> nii])
            @@ ((stem \o s_json) :> [kind |-> "json", val |-> s.info])
            @@ ((stem \o s_bval) :> [kind |-> "bval", val |-> nii])
            @@ ((stem \o s_bvec) :> [kind |-> "bvec", val |-> nii])
    ELSE (nii :> [kind |-> "nii", val |-> nii])
            @@ ((stem \o s_json) :> [kind |-> "json", val |-> s.info])

series_nii(dir, name, s) == PathJoin(dir, dcm2niix_name(name, s.desc, s.seq, s.serno))

\* the files fs without the file at path
without_file(fs, path) == [p \in DOMAIN fs \ {path} |-> fs[p]]

series_files(dir, name, s) ==
    IF s.sidecar
    THEN series_files_at(series_nii(dir, name, s),
                         strip_extensions(series_nii(dir, name, s)), s)
    ELSE without_file(series_files_at(series_nii(dir, name, s),
                                      strip_extensions(series_nii(dir, name, s)), s),
                      strip_extensions(series_nii(dir, name, s)) \o s_json)

\* subprocess.call(['dcm2niix', ..., '-o', work_conv_dir, dcm_dir]): the
\* working directory with the files of the first n series of the unit added
RECURSIVE dcm2niix_upto(_, _, _, _)
dcm2niix_upto(fs, dir, unit, n) ==
    IF n = 0 THEN fs
    ELSE series_files(dir, unit.name, unit.scan[n]) @@ dcm2niix_upto(fs, dir, unit, n - 1)

dcm2niix(fs, dir, unit) == dcm2niix_upto(fs, dir, unit, Len(unit.scan))

\* glob(os.path.join(conv_dir, '*.nii*')): the images of the unit that exist,
\* in the order the series were acquired
glob_nii(fs, dir, unit) ==
    SelectSeq([i \in 1..Len(unit.scan) |-> series_nii(dir, unit.name, unit.scan[i])],
              LAMBDA p : isfile(fs, p))

(***************************************************************************)
(* The dictionary file and the BIDS source directory                       *)
(***************************************************************************)

\* the entry bids_run_conversion records for a description in the first pass
TemplateEntry == <<s_EXCLUDE_DIR, s_EXCLUDE_NAME, IFStr(s_UNASSIGNED)>>

\* bids_load_prot_dict(prot_dict_json)
bids_load_prot_dict(file) == IF file.present THEN file.map ELSE EmptyDict

\* a bids_create_prot_dict that writes whether the file exists or not
bids_create_prot_dict_always(file, dict) == [present |-> TRUE, map |-> dict]

\* bids_create_prot_dict(prot_dict_json, prot_dict)
bids_create_prot_dict(file, dict) ==
    IF file.present THEN file ELSE [present |-> TRUE, map |-> dict]

parts_tsv == PathJoin(bids_src_dir, s_participants)

datadesc_json == PathJoin(bids_src_dir, s_datadesc)

\* meta_dict of bids_init
meta_dict ==
    [BIDSVersion |-> "1.0.0",
     License |-> "This data is made available under the Creative Commons BY-SA 4.0 International License.",
     Name |-> "The dataset name goes here",
     ReferencesAndLinks |-> "References and links for this dataset go here"]

\* a bids_init that writes the dataset description whatever the flag
bids_init_forced(fs, ow) ==
    bids_write_json(
        write_file(fs, parts_tsv,
                   [kind |-> "tsv", val |-> <<<<s_participant_id, s_sex, s_age>>>>]),
        datadesc_json, meta_dict, TRUE)

\* bids_init(bids_src_dir, overwrite): participants.tsv is opened with 'w'
bids_init(fs, ow) ==
    bids_write_json(
        write_file(fs, parts_tsv,
                   [kind |-> "tsv", val |-> <<<<s_participant_id, s_sex, s_age>>>>]),
        datadesc_json, meta_dict, ow)

\* participants_fd.write("sub-%s\t%s\t%s\n" % (SID, Sex, Age))
participants_write(fs, SID, sex, age) ==
    write_file(fs, parts_tsv,
               [kind |-> "tsv", val |-> Append(fs[parts_tsv].val, <<s_sub \o SID, sex, age>>)])

\* the dictionaries a user completes the template with
UserMapA ==
    (d_fmap :> <<s_fmap, x_gre, IFList(<<x_task_rest_bold>>)>>)
    @@ (d_rest :> <<s_func, x_task_rest_bold, IFStr(s_UNASSIGNED)>>)
    @@ (d_dti :> <<s_dwi, x_dwi, IFStr(s_UNASSIGNED)>>)
    @@ (d_t1 :> <<s_anat, x_T1w, IFStr(s_UNASSIGNED)>>)

UserMapB ==
    (d_fmap :> <<s_fmap, x_gre, IFStr(x_task_rest)>>)
    @@ (d_rest :> <<s_func, x_task_rest, IFStr(s_UNASSIGNED)>>)
    @@ (d_dti :> TemplateEntry)
    @@ (d_t1 :> <<s_anat, x_T1w, IFStr(s_UNASSIGNED)>>)

UserMaps == {UserMapA, UserMapB}

(***************************************************************************)
(* The program                                                             *)
(***************************************************************************)

NoPlan ==
    [exc |-> "none", events |-> FALSE, info |-> EmptyDict,
     bids_nii_fname |-> <<>>, bids_json_fname |-> <<>>,
     work_bval_fname |-> <<>>, bids_bval_fname |-> <<>>,
     work_bvec_fname |-> <<>>, bids_bvec_fname |-> <<>>]

\* nothing was done to a series by the step just taken
NoLast ==
    [what |-> "none", src |-> <<>>, json |-> <<>>, desc |-> <<>>, seq |-> <<>>,
     prefix |-> <<>>, entry |-> TemplateEntry, run |-> 0, plan |-> NoPlan, exc |-> "none",
     dest |-> NoFiles, ddirs |-> {}, existed |-> FALSE]

NoStart ==
    [pass |-> 0, dcm |-> 0, protFile |-> [present |-> FALSE, map |-> EmptyDict],
     wfs |-> NoFiles, wdirs |-> {}, dest |-> NoFiles]

\* the values the variables of a run have while no run is going on
Resting ==
    /\ pc = "idle"
    /\ overwrite = FALSE
    /\ first_pass = TRUE
    /\ prot_dict = EmptyDict
    /\ ui = 0
    /\ broke = FALSE
    /\ last = NoLast
    /\ seen = {}

Init ==
    /\ world \in Worlds
    /\ dcm = 0
    /\ protFile = [present |-> FALSE, map |-> EmptyDict]
    /\ wdirs = {}
    /\ wfs = NoFiles
    /\ dest = NoFiles
    /\ ddirs = {}
    /\ Resting
    /\ filelist = <<>>
    /\ file_index = 0
    /\ run_suffix = <<>>
    /\ runs = 0
    /\ exit = "none"
    /\ start = NoStart
    /\ prev = NoStart

\* the run ends with exit e: by sys.exit(0) at the end of main, by sys.exit(1)
\* or by an exception no handler catches
Ends(e) ==
    /\ pc' = "done"
    /\ exit' = e
    /\ runs' = runs + 1

\* main, up to the loop over the subject directories
StartRun(ow) ==
    /\ pc \in {"idle", "done"}
    /\ runs < MaxRuns
    /\ overwrite' = ow
    /\ prot_dict' = bids_load_prot_dict(protFile)
    /\ wdirs' = safe_mkdir(wdirs, work_dir)
    /\ ddirs' = safe_mkdir(ddirs, bids_src_dir)
    /\ first_pass' = ~(DOMAIN prot_dict' # {} /\ work_dir \in wdirs')
    /\ dest' = IF ~first_pass' THEN bids_init(dest, ow) ELSE dest
    /\ start' = [pass |-> IF first_pass' THEN 1 ELSE 2, dcm |-> dcm, protFile |-> protFile,
                 wfs |-> wfs, wdirs |-> wdirs, dest |-> dest]
    /\ prev' = start
    /\ pc' = "units"
    /\ ui' = 0
    /\ seen' = {}
    /\ last' = NoLast
    /\ broke' = FALSE
    /\ filelist' = <<>>
    /\ file_index' = 0
    /\ run_suffix' = <<>>
    /\ UNCHANGED <<world, dcm, protFile, wfs, runs, exit>>

\* a unit is visited: conv is its working directory, fs the working
\* directory after the conversion (if there was one), files the file list of
\* bids_run_conversion
VisitWith(u, conv, convert, fs, files) ==
    /\ wdirs' = wdirs \cup {conv}
    /\ wfs' = fs
    /\ last' = [NoLast EXCEPT !.what = IF convert THEN "converted" ELSE "read",
                              !.existed = conv \in wdirs]
    /\ IF ~convert /\ ~u.readable
       THEN \* bids_dcm_info: sys.exit(1)
            /\ Ends("SystemExit")
            /\ UNCHANGED <<dest, filelist, file_index, run_suffix, broke>>
       ELSE IF \E i \in 1..Len(files) : ~parse_dcm2niix_ok(files[i])
       THEN \* parse_dcm2niix_fname raises IndexError
            /\ Ends("IndexError")
            /\ dest' = IF convert THEN dest ELSE participants_write(dest, u.SID, u.sex, u.age)
            /\ UNCHANGED <<filelist, file_index, run_suffix, broke>>
       ELSE /\ dest' = IF convert THEN dest ELSE participants_write(dest, u.SID, u.sex, u.age)
            /\ filelist' = files
            /\ run_suffix' = run_suffix_table(files)
            /\ file_index' = 0
            /\ broke' = FALSE
            /\ pc' = "files"
            /\ UNCHANGED <<exit, runs>>

\* "Flag for conversion if no working directory existed", the conversion
VisitAt(u, conv, convert) ==
    VisitWith(u, conv, convert,
              IF convert THEN dcm2niix(wfs, conv, u) ELSE wfs,
              glob_nii(IF convert THEN dcm2niix(wfs, conv, u) ELSE wfs, conv, u))

\* "if not os.path.isdir(work_conv_dir)": needs_converting
needs_converting(dirs, conv) == conv \notin dirs

\* a program that runs the converter for every unit it visits
converting_always(pass1, needed) == TRUE

\* "if first_pass or needs_converting:"
converting(pass1, needed) == pass1 \/ needed

\* one iteration of the loop over the session directories of the subject
\* directories, up to the file loop of bids_run_conversion
VisitUnit ==
    /\ pc = "units"
    /\ ui < dcm
    /\ VisitAt(world.units[ui + 1],
               work_conv_dir(world.units[ui + 1].SID, world.units[ui + 1].SES),
               converting(first_pass,
                          needs_converting(wdirs,
                                           work_conv_dir(world.units[ui + 1].SID,
                                                         world.units[ui + 1].SES))))
    /\ UNCHANGED <<world, dcm, protFile, ddirs, overwrite, first_pass, prot_dict, ui,
                   seen, start, prev>>

\* src_json_fname of bids_run_conversion
src_json_fname(src_nii_fname) ==
    IF Contains(src_nii_fname, s_niigz) THEN Replace(src_nii_fname, s_niigz, s_json)
    ELSE Replace(src_nii_fname, s_nii, s_json)

\* what a step of the file loop knows of its file before it does anything
Met(src, f) ==
    [NoLast EXCEPT !.src = src, !.json = src_json_fname(src), !.desc = f.ser_desc,
                   !.seq = f.seq_name, !.dest = dest, !.ddirs = ddirs]

RecordParsed(src, f) ==
    /\ prot_dict' = dict_set(prot_dict, f.ser_desc, TemplateEntry)
    /\ seen' = seen \cup {f.ser_desc}
    /\ last' = [Met(src, f) EXCEPT !.what = "template"]

\* one iteration of the file loop in the first pass
RecordTemplate ==
    /\ pc = "files"
    /\ ~broke
    /\ file_index < Len(filelist)
    /\ first_pass
    /\ RecordParsed(filelist[file_index + 1],
                    parse_dcm2niix_fname(filelist[file_index + 1]))
    /\ file_index' = file_index + 1
    /\ UNCHANGED <<world, dcm, protFile, wdirs, wfs, dest, ddirs, pc, overwrite, first_pass,
                   ui, filelist, run_suffix, broke, runs, exit, start, prev>>

\* bids_suffix with the run number of the file added, if it has one
run_numbered(bids_suffix, run) ==
    IF run # 0 THEN bids_add_run_number(bids_suffix, PyStr(run)) ELSE bids_suffix

\* bids_purpose_handling has returned res, or raised res.exc
Organized(me, entry, prefix, dir, res) ==
    /\ ddirs' = safe_mkdir(ddirs, dir)
    /\ prot_dict' = [prot_dict EXCEPT ![me.desc] = entry_after(entry, prefix)]
    /\ dest' = res.fs
    /\ last' = [me EXCEPT !.what = IF res.exc = "none" THEN "organized" ELSE "crash",
                          !.prefix = prefix, !.entry = entry,
                          !.run = run_suffix[file_index + 1],
                          !.plan = res.plan, !.exc = res.exc]
    /\ IF res.exc = "none"
       THEN /\ file_index' = file_index + 1
            /\ UNCHANGED <<pc, exit, runs>>
       ELSE /\ Ends(res.exc)
            /\ UNCHANGED file_index
    /\ UNCHANGED broke

\* "Organizing": the names are built and bids_purpose_handling is called
OrganizeAs(me, entry, prefix, dir, bids_nii_fname) ==
    Organized(me, entry, prefix, dir,
              bids_purpose_handling(wfs, dest, entry[1], add_prefix(entry[3], prefix),
                                    me.seq, me.src, me.json, bids_nii_fname,
                                    Replace(bids_nii_fname, s_niigz, s_json), overwrite))

OrganizeIn(me, entry, prefix, dir) ==
    OrganizeAs(me, entry, prefix, dir,
               PathJoin(dir, prefix \o run_numbered(entry[2], run_suffix[file_index + 1])
                                \o s_niigz))

\* an exclusion test that knows the bare marker only
is_excluded_exact(entry) == entry[1] = s_EXCLUDE

\* prot_dict[ser_desc][0].startswith('EXCLUDE')
is_excluded(entry) == StartsWith(entry[1], s_EXCLUDE)

\* the body of the file loop in the second pass, for the file me of unit u
OrganizeFile(u, me) ==
    /\ seen' = seen \cup {me.desc}
    /\ IF ~isfile(wfs, me.json)
       THEN \* "JSON sidecar not found": break
            /\ broke' = TRUE
            /\ last' = [me EXCEPT !.what = "nosidecar"]
            /\ UNCHANGED <<dest, ddirs, prot_dict, file_index, pc, exit, runs>>
       ELSE IF me.desc \notin DOMAIN prot_dict
       THEN \* prot_dict[ser_desc] raises KeyError
            /\ Ends("KeyError")
            /\ last' = [me EXCEPT !.what = "crash", !.exc = "KeyError"]
            /\ UNCHANGED <<dest, ddirs, prot_dict, file_index, broke>>
       ELSE IF is_excluded(prot_dict[me.desc])
       THEN \* "Excluding protocol"
            /\ last' = [me EXCEPT !.what = "excluded", !.entry = prot_dict[me.desc]]
            /\ file_index' = file_index + 1
            /\ UNCHANGED <<dest, ddirs, prot_dict, broke, pc, exit, runs>>
       ELSE OrganizeIn(me, prot_dict[me.desc], bids_prefix(u.SID, u.SES),
                       PathJoin(bids_src_ses_dir(u.SID, u.SES), prot_dict[me.desc][1]))

\* one iteration of the file loop in the second pass
OrganizeSeries ==
    /\ pc = "files"
    /\ ~broke
    /\ file_index < Len(filelist)
    /\ ~first_pass
    /\ OrganizeFile(world.units[ui + 1],
                    Met(filelist[file_index + 1],
                        parse_dcm2niix_fname(filelist[file_index + 1])))
    /\ UNCHANGED <<world, dcm, protFile, wdirs, wfs, overwrite, first_pass, ui, filelist,
                   run_suffix, start, prev>>

\* the file loop is over: bids_run_conversion returns
LeaveUnit ==
    /\ pc = "files"
    /\ broke \/ file_index = Len(filelist)
    /\ pc' = "units"
    /\ ui' = ui + 1
    /\ last' = NoLast
    /\ UNCHANGED <<world, dcm, protFile, wdirs, wfs, dest, ddirs, overwrite, first_pass,
                   prot_dict, filelist, file_index, run_suffix, broke, runs, exit, seen,
                   start, prev>>

\* main, after the loop over the subject directories
EndRun ==
    /\ pc = "units"
    /\ ui = dcm
    /\ protFile' = IF first_pass THEN bids_create_prot_dict(protFile, prot_dict) ELSE protFile
    /\ Ends("ok")
    /\ last' = NoLast
    /\ UNCHANGED <<world, dcm, wdirs, wfs, dest, ddirs, overwrite, first_pass, prot_dict, ui,
                   filelist, file_index, run_suffix, broke, seen, start, prev>>

(***************************************************************************)
(* Between two runs                                                        *)
(***************************************************************************)

\* the raw data of the next unit of the study is put under the DICOM root
Arrive ==
    /\ pc \in {"idle", "done"}
    /\ pc' = "idle"
    /\ last' = NoLast
    /\ dcm < Len(world.units)
    /\ dcm' = dcm + 1
    /\ UNCHANGED <<world, protFile, wdirs, wfs, dest, ddirs, overwrite, first_pass,
                   prot_dict, ui, filelist, file_index, run_suffix, broke, runs, exit,
                   seen, start, prev>>

\* the user completes the entries of the dictionary file by hand
EditMapping(m) ==
    /\ pc \in {"idle", "done"}
    /\ pc' = "idle"
    /\ last' = NoLast
    /\ protFile.present
    /\ DOMAIN protFile.map # {}
    /\ protFile' = [present |-> TRUE, map |-> [d \in DOMAIN protFile.map |-> m[d]]]
    /\ protFile' # protFile
    /\ UNCHANGED <<world, dcm, wdirs, wfs, dest, ddirs, overwrite, first_pass, prot_dict,
                   ui, filelist, file_index, run_suffix, broke, runs, exit, seen,
                   start, prev>>

\* the user fills in the name of the dataset in dataset_description.json
EditDescription ==
    /\ pc \in {"idle", "done"}
    /\ pc' = "idle"
    /\ last' = NoLast
    /\ isfile(dest, datadesc_json)
    /\ dest[datadesc_json].val = meta_dict
    /\ dest' = write_file(dest, datadesc_json,
                          [kind |-> "json", val |-> [meta_dict EXCEPT !.Name = "My study"]])
    /\ UNCHANGED <<world, dcm, protFile, wdirs, wfs, ddirs, overwrite, first_pass,
                   prot_dict, ui, filelist, file_index, run_suffix, broke, runs, exit,
                   seen, start, prev>>

Next ==
    \/ \E ow \in BOOLEAN : StartRun(ow)
    \/ VisitUnit
    \/ RecordTemplate
    \/ OrganizeSeries
    \/ LeaveUnit
    \/ EndRun
    \/ Arrive
    \/ \E m \in UserMaps : EditMapping(m)
    \/ EditDescription

Spec == Init /\ [][Next]_vars

(***************************************************************************)
(* SpecRuns: the run numbering loop of bids_run_conversion, one iteration  *)
(* a step, on every file list of at most MaxFiles images of one working    *)
(* directory.                                                              *)
(***************************************************************************)

RunDescs == {d_t1, d_rest, d_rest_ap}

RunNames == {n_s01, n_pilot1}

\* the i-th image of a working directory whose series have the descriptions ds
RunFile(name, ds, i) ==
    series_nii(work_conv_dir(id_01, <<>>), name,
               Series(ds[i], IF ds[i] = d_t1 THEN s_GR_IR ELSE s_EP, StrOf(i), EmptyDict, FALSE))

RunLists ==
    { [i \in 1..Len(ds) |-> RunFile(name, ds, i)] :
        name \in RunNames, ds \in UNION { [1..n -> RunDescs] : n \in 0..MaxFiles } }

InitRuns ==
    /\ world = [no_sessions |-> TRUE, units |-> <<>>]
    /\ dcm = 0
    /\ protFile = [present |-> FALSE, map |-> EmptyDict]
    /\ wdirs = {}
    /\ wfs = NoFiles
    /\ dest = NoFiles
    /\ ddirs = {}
    /\ pc = "dedup"
    /\ overwrite = FALSE
    /\ first_pass = FALSE
    /\ prot_dict = EmptyDict
    /\ ui = 0
    /\ broke = FALSE
    /\ last = NoLast
    /\ seen = {}
    /\ filelist \in RunLists
    /\ file_index = 0
    /\ run_suffix = [i \in 1..Len(filelist) |-> 0]
    /\ runs = 0
    /\ exit = "none"
    /\ start = NoStart
    /\ prev = NoStart

\* one iteration of "for file_index in range(len(filelist)-1)"
DedupStep ==
    /\ pc = "dedup"
    /\ file_index < Len(filelist) - 1
    /\ run_suffix' = dedup_iter(filelist, run_suffix, file_index)
    /\ file_index' = file_index + 1
    /\ UNCHANGED <<world, dcm, protFile, wdirs, wfs, dest, ddirs, pc, overwrite, first_pass,
                   prot_dict, ui, filelist, broke, runs, exit, last, seen, start, prev>>

\* the loop is over; "file_index = 0" before the file loop
DedupExit ==
    /\ pc = "dedup"
    /\ file_index >= Len(filelist) - 1
    /\ pc' = "files"
    /\ file_index' = 0
    /\ UNCHANGED <<world, dcm, protFile, wdirs, wfs, dest, ddirs, overwrite, first_pass,
                   prot_dict, ui, filelist, run_suffix, broke, runs, exit, last, seen,
                   start, prev>>

NextRuns == DedupStep \/ DedupExit

SpecRuns == InitRuns /\ [][NextRuns]_vars

(***************************************************************************)
(* Claims                                                                  *)
(***************************************************************************)

\* the series description of the i-th file of the file list
DescAt(i) == parse_dcm2niix_fname(filelist[i]).ser_desc

\* the positions of the file list whose description is identical to that of i
SameDesc(i) == {j \in 1..Len(filelist) : DescAt(j) = DescAt(i)}

\* the run numbering is complete: the file loop is being executed
Numbered == pc = "files" /\ Len(run_suffix) = Len(filelist)

\* C1: once the run numbering loop is over, the series that share one
\* identical description with multiplicity k > 1 hold the run numbers 1..k in
\* their discovery order, whatever other descriptions the unit holds.
C1_RunNumbering ==
    Numbered =>
        \A i \in 1..Len(filelist) :
            Cardinality(SameDesc(i)) > 1 =>
                run_suffix[i] = Cardinality({j \in SameDesc(i) : j <= i})

\* C2: once the run numbering loop is over, a series whose description no
\* other series of the unit has holds no run number, and its output name has
\* no run marker.
C2_UniqueNoRun ==
    Numbered =>
        \A i \in 1..Len(filelist) :
            Cardinality(SameDesc(i)) = 1 =>
                /\ run_suffix[i] = 0
                /\ ~Contains(run_numbered(x_task_rest_bold, run_suffix[i]), s_run)

\* a second pass has just ended, with overwrite disabled, and the run before
\* it was a second pass that started from the same working directory, the
\* same dictionary file and the same raw data
SecondPassRepeated ==
    /\ pc = "done"
    /\ start.pass = 2
    /\ prev.pass = 2
    /\ ~overwrite
    /\ start.wfs = prev.wfs
    /\ start.wdirs = prev.wdirs
    /\ start.protFile = prev.protFile
    /\ start.dcm = prev.dcm

\* C3: a second pass with overwrite disabled that repeats a second pass over
\* the same working directory and dictionary leaves the output tree as the
\* run before it left it: no file is added, none removed, none changed.
C3_SecondPassIdempotent ==
    SecondPassRepeated => dest = start.dest

\* the repeated second pass had images, sidecars and gradient tables to keep
C3_Witness ==
    /\ SecondPassRepeated
    /\ exit = "ok"
    /\ \E p \in DOMAIN dest : dest[p].kind = "nii"
    /\ \E p \in DOMAIN dest : dest[p].kind = "bval"

\* the step just taken handled a series that the dictionary the run loaded
\* marks as excluded
ExcludedSeries ==
    /\ last.what \in {"excluded", "organized", "crash"}
    /\ last.desc \in DOMAIN start.protFile.map
    /\ StartsWith(start.protFile.map[last.desc][1], s_EXCLUDE)

\* C4: handling a series whose dictionary entry has a category that starts
\* with the exclusion marker writes no file and creates no directory in the
\* output tree.
C4_ExcludedSeriesUntouched ==
    ExcludedSeries => dest = last.dest /\ ddirs = last.ddirs

\* an excluded series is skipped in a unit that has placed files already
C4_Witness ==
    /\ ExcludedSeries
    /\ last.what = "excluded"
    /\ \E p \in DOMAIN dest : dest[p].kind = "nii"

\* the step just taken has placed the artifacts of a series
Placed == last.what = "organized"

\* the overwrite policy for one artifact: file is what the step had to put at
\* path
PolicyApplied(path, file) ==
    /\ isfile(dest, path)
    /\ IF isfile(last.dest, path) /\ ~overwrite
       THEN dest[path] = last.dest[path]
       ELSE dest[path] = file

\* the events file of the series takes the path of its image (the suffix of
\* the series does not end in _bold)
EventsOnImage == last.plan.events /\ events_fname(last.plan.bids_nii_fname) = last.plan.bids_nii_fname

\* C5: the overwrite policy applies alike to every artifact placed for a
\* series, the image, the sidecar and the two gradient tables: an existing
\* destination is left unchanged when overwrite is false and replaced by the
\* newly derived content when it is true, and a missing one is created.  (The
\* image of a series whose events file takes the image's path is left out.)
C5_UniformOverwritePolicy ==
    Placed =>
        /\ (last.plan.bids_nii_fname # <<>> /\ ~EventsOnImage)
              => PolicyApplied(last.plan.bids_nii_fname, wfs[last.src])
        /\ last.plan.bids_json_fname # <<>>
              => PolicyApplied(last.plan.bids_json_fname,
                               [kind |-> "json", val |-> last.plan.info])
        /\ last.plan.bids_bval_fname # <<>>
              => PolicyApplied(last.plan.bids_bval_fname, wfs[last.plan.work_bval_fname])
        /\ last.plan.bids_bvec_fname # <<>>
              => PolicyApplied(last.plan.bids_bvec_fname, wfs[last.plan.work_bvec_fname])

\* the parts of C5 for the image and the gradient tables alone
C5_CopiesFollowPolicy ==
    Placed =>
        /\ (last.plan.bids_nii_fname # <<>> /\ ~EventsOnImage)
              => PolicyApplied(last.plan.bids_nii_fname, wfs[last.src])
        /\ last.plan.bids_bval_fname # <<>>
              => PolicyApplied(last.plan.bids_bval_fname, wfs[last.plan.work_bval_fname])
        /\ last.plan.bids_bvec_fname # <<>>
              => PolicyApplied(last.plan.bids_bvec_fname, wfs[last.plan.work_bvec_fname])

\* the linkedTo value of the series just handled, as the dictionary file had
\* it when the run loaded it
LoadedLink == start.protFile.map[last.desc][3]

\* the step just taken derived a sidecar with a linked-series field for a
\* series whose linkedTo value is not the sentinel
LinkWritten ==
    /\ Placed
    /\ last.desc \in DOMAIN start.protFile.map
    /\ ~has_unassigned(LoadedLink)
    /\ last.plan.bids_json_fname # <<>>
    /\ "IntendedFor" \in DOMAIN last.plan.info

\* stem with the prefix of the unit being processed and the extension
Qualified(stem) ==
    bids_prefix(world.units[ui + 1].SID, world.units[ui + 1].SES) \o stem \o s_niigz

\* C6: each stem written to the linked-series field of a series of the second
\* pass is the prefix of the unit being processed + stem + '.nii.gz', for a
\* single stem and for a list of stems, for every series and unit of the run.
C6_LinksQualifiedForCurrentUnit ==
    LinkWritten =>
        /\ last.plan.info.IntendedFor.isstr = LoadedLink.isstr
        /\ Len(last.plan.info.IntendedFor.items) = Len(LoadedLink.items)
        /\ \A i \in 1..Len(LoadedLink.items) :
              last.plan.info.IntendedFor.items[i] = Qualified(LoadedLink.items[i])

\* C6 for the entries whose linkedTo value is a single stem
C6_SingleStemQualified ==
    (LinkWritten /\ LoadedLink.isstr) =>
        last.plan.info.IntendedFor = IFStr(Qualified(LoadedLink.items[1]))

\* the paths whose file is not the same in the file systems a and b
Changed(a, b) ==
    {p \in DOMAIN a \cup DOMAIN b :
        p \notin DOMAIN a \/ p \notin DOMAIN b \/ a[p] # b[p]}

\* the step just taken handled a gradient-echo series mapped to the fieldmap
\* category
GreFieldmap ==
    /\ Placed
    /\ last.desc \in DOMAIN start.protFile.map
    /\ start.protFile.map[last.desc][1] = s_fmap
    /\ last.seq = s_GR

\* the sidecar of the series just handled, in the working directory
OwnSidecar == wfs[last.json].val

\* the three cases of C7
EchoOneMagnitude == GreFieldmap /\ "EchoNumber" \notin DOMAIN OwnSidecar

EchoTwoPhase ==
    /\ GreFieldmap
    /\ "EchoNumber" \in DOMAIN OwnSidecar
    /\ OwnSidecar.EchoNumber = 2
    /\ Contains(OwnSidecar.ImageType[3], s_P)

EchoTwoMagnitude ==
    /\ GreFieldmap
    /\ "EchoNumber" \in DOMAIN OwnSidecar
    /\ OwnSidecar.EchoNumber = 2
    /\ ~Contains(OwnSidecar.ImageType[3], s_P)

\* p is the sidecar of the series numbered one less than the series of the
\* sidecar q of the same working directory
OneLess(p, q) ==
    /\ EndsWith(p, s_json)
    /\ Dirname(p) = Dirname(q)
    /\ parse_dcm2niix_ok(p)
    /\ parse_dcm2niix_fname(p).subj_name = parse_dcm2niix_fname(q).subj_name
    /\ parse_dcm2niix_fname(p).ser_desc = parse_dcm2niix_fname(q).ser_desc
    /\ parse_dcm2niix_fname(p).seq_name = parse_dcm2niix_fname(q).seq_name
    /\ IsInt(parse_dcm2niix_fname(p).ser_no)
    /\ IsInt(parse_dcm2niix_fname(q).ser_no)
    /\ IntOf(parse_dcm2niix_fname(p).ser_no) = IntOf(parse_dcm2niix_fname(q).ser_no) - 1

\* the sidecars of the series numbered one less than the series just handled
PairedSidecars == {p \in DOMAIN wfs : OneLess(p, last.json)}

\* cases (1) and (3) of C7, and what case (2) emits
FieldmapFilesEmitted ==
    /\ EchoOneMagnitude =>
          /\ EndsWith(last.plan.bids_nii_fname, s_magnitude_nii)
          /\ isfile(dest, last.plan.bids_nii_fname)
          /\ dest[last.plan.bids_nii_fname].kind = "nii"
          /\ Changed(last.dest, dest) \subseteq {last.plan.bids_nii_fname}
    /\ EchoTwoPhase =>
          /\ EndsWith(last.plan.bids_nii_fname, s_phasediff_nii)
          /\ EndsWith(last.plan.bids_json_fname, s_phasediff_json)
          /\ isfile(dest, last.plan.bids_nii_fname)
          /\ isfile(dest, last.plan.bids_json_fname)
          /\ dest[last.plan.bids_nii_fname].kind = "nii"
          /\ Changed(last.dest, dest) \subseteq
                {last.plan.bids_nii_fname, last.plan.bids_json_fname}
    /\ EchoTwoMagnitude => dest = last.dest

\* the sidecar emitted for the phase series just handled
PhaseSidecar == dest[last.plan.bids_json_fname].val

\* C7 (as claimed): a gradient-echo fieldmap series with no echo number gives
\* a magnitude image and no sidecar; one with echo number 2 and a phase image
\* type gives a phasediff image and sidecar, with EchoTime1 from the sidecar
\* of the series numbered one less and EchoTime2 the series' own echo time;
\* one with echo number 2 and a magnitude image type gives nothing.
C7_FieldmapDispatch_Claimed ==
    /\ FieldmapFilesEmitted
    /\ EchoTwoPhase =>
          /\ PhaseSidecar.EchoTime2 = OwnSidecar.EchoTime
          /\ \A p \in PairedSidecars : PhaseSidecar.EchoTime1 = wfs[p].val.EchoTime

\* C7 (amended): as claimed when the sidecar of the series numbered one less
\* is in the working directory; when it is not, EchoTime1 and EchoTime2 are
\* both 0.
C7_FieldmapDispatch ==
    /\ FieldmapFilesEmitted
    /\ EchoTwoPhase =>
          IF PairedSidecars # {}
          THEN /\ PhaseSidecar.EchoTime2 = OwnSidecar.EchoTime
               /\ \A p \in PairedSidecars : PhaseSidecar.EchoTime1 = wfs[p].val.EchoTime
          ELSE /\ PhaseSidecar.EchoTime2 = 0
               /\ PhaseSidecar.EchoTime1 = 0

\* a phase series is placed whose magnitude series is in the working
\* directory, with two different echo times
C7_Witness ==
    /\ EchoTwoPhase
    /\ PairedSidecars # {}
    /\ PhaseSidecar.EchoTime1 = 492
    /\ PhaseSidecar.EchoTime2 = 738

\* the other cases of C7 happen
C7_MagnitudeSeen == EchoOneMagnitude /\ last.dest # dest

C7_DiscardSeen == EchoTwoMagnitude

C7_OrphanSeen == EchoTwoPhase /\ PairedSidecars = {}

\* the step just taken handled a series mapped to the diffusion category of
\* which a gradient table is not in the working directory
TablesMissing ==
    /\ last.what \in {"organized", "crash"}
    /\ last.desc \in DOMAIN start.protFile.map
    /\ start.protFile.map[last.desc][1] = s_dwi
    /\ \/ ~isfile(wfs, Replace(last.json, s_json, s_bval))
       \/ ~isfile(wfs, Replace(last.json, s_json, s_bvec))

\* C8: for a series mapped to the diffusion category with a gradient table
\* absent from the working directory, the image is placed and the run does
\* not abort: the file loop goes on with the next series.
C8_MissingTablesNotFatal ==
    TablesMissing =>
        /\ isfile(dest, last.plan.bids_nii_fname)
        /\ last.exc = "none"
        /\ pc = "files"

\* what holds of such a series: its image and sidecar are there, and the run
\* has ended with the exception of the copy whenever a table had to be copied
C8_ImagePlacedRunAborted ==
    TablesMissing =>
        /\ isfile(dest, last.plan.bids_nii_fname)
        /\ isfile(dest, last.plan.bids_json_fname)
        /\ (~isfile(dest, last.plan.bids_bval_fname) \/ overwrite)
              => (last.exc = "FileNotFoundError" /\ pc = "done" /\ exit = "FileNotFoundError")

\* a first pass has just come to its end
FirstPassOver == pc = "done" /\ start.pass = 1 /\ exit = "ok"

\* the dictionary file holds the template of the descriptions the run met
TemplatePersisted ==
    /\ protFile.present
    /\ DOMAIN protFile.map = seen
    /\ \A d \in seen : protFile.map[d] = TemplateEntry

\* C9: after a first pass the dictionary file holds exactly one entry for
\* each description the run met, each the exclusion template, whether the
\* file was absent before the run or present and empty.
C9_TemplateComplete ==
    (FirstPassOver /\ (~start.protFile.present \/ DOMAIN start.protFile.map = {}))
        => TemplatePersisted

\* C9 (amended): after a first pass that found no dictionary file, the file
\* holds exactly one entry for each description the run met, each the
\* exclusion template; a first pass that found a dictionary file, an empty
\* one too, leaves the file as it was.
C9_TemplateCompleteOrFileKept ==
    FirstPassOver =>
        IF start.protFile.present THEN protFile = start.protFile ELSE TemplatePersisted

\* a first pass that found no dictionary file has met several descriptions
C9_Witness ==
    /\ FirstPassOver
    /\ ~start.protFile.present
    /\ Cardinality(seen) >= 3

\* a second pass is going on or has just ended, and the dataset description
\* was in the output tree when it started
DescriptorExisted ==
    /\ pc # "idle"
    /\ start.pass = 2
    /\ isfile(start.dest, datadesc_json)

\* C10: a dataset description that is in the output tree when a second pass
\* starts has the same content during and after the run, whatever the
\* overwrite flag.
C10_DescriptorNeverOverwritten ==
    DescriptorExisted => dest[datadesc_json] = start.dest[datadesc_json]

\* C10 (amended): a dataset description that is in the output tree when a
\* second pass starts has the same content during and after the run when the
\* overwrite flag is off; with the flag on it is the template of bids_init
\* again.
C10_DescriptorFollowsOverwrite ==
    DescriptorExisted =>
        IF overwrite
        THEN dest[datadesc_json] = [kind |-> "json", val |-> meta_dict]
        ELSE dest[datadesc_json] = start.dest[datadesc_json]

\* a second pass without the overwrite flag has ended, and the description
\* the user had edited is still there
C10_Witness ==
    /\ DescriptorExisted
    /\ pc = "done"
    /\ ~overwrite
    /\ dest[datadesc_json].val # meta_dict

\* a second pass has run to its end
SecondPassOver ==
    /\ pc = "done"
    /\ start.pass = 2
    /\ exit = "ok"

\* the subjects whose units the run has visited
SubjectsProcessed == {world.units[i].SID : i \in 1..dcm}

\* the rows of the participants table that name the subject SID
RowsOf(SID) ==
    {k \in 2..Len(dest[parts_tsv].val) : dest[parts_tsv].val[k][1] = s_sub \o SID}

\* C11: after a second pass that ran to its end the participants table holds
\* the header followed by exactly one row for each subject the run processed,
\* with or without session directories, and also for a subject whose working
\* directory did not exist when the run started.
C11_OneRowPerSubject ==
    SecondPassOver =>
        /\ Head(dest[parts_tsv].val) = <<s_participant_id, s_sex, s_age>>
        /\ Len(dest[parts_tsv].val) = 1 + Cardinality(SubjectsProcessed)
        /\ \A SID \in SubjectsProcessed : Cardinality(RowsOf(SID)) = 1

\* a second pass has run to its end over a subject it had to convert, and
\* the table has no row for the subject
C11_ConvertedSubjectHasNoRow ==
    /\ SecondPassOver
    /\ \E i \in 1..dcm :
          /\ work_conv_dir(world.units[i].SID, world.units[i].SES) \notin start.wdirs
          /\ RowsOf(world.units[i].SID) = {}

\* a second pass has run to its end over two sessions of one subject that
\* were both converted before, and the table has two rows for the subject
C11_TwoRowsForOneSubject ==
    /\ SecondPassOver
    /\ ~world.no_sessions
    /\ \A i \in 1..dcm :
          work_conv_dir(world.units[i].SID, world.units[i].SES) \in start.wdirs
    /\ \E SID \in SubjectsProcessed : Cardinality(RowsOf(SID)) = 2

\* what the code does: after a second pass that ran to its end the table
\* holds the header and then, in the order of the visits, one row for each
\* unit whose working directory existed when the run started
RowsWritten ==
    SelectSeq([i \in 1..dcm |-> world.units[i]],
              LAMBDA u : work_conv_dir(u.SID, u.SES) \in start.wdirs)

C11_OneRowPerReorganizedUnit ==
    SecondPassOver =>
        dest[parts_tsv].val =
            <<<<s_participant_id, s_sex, s_age>>>>
                \o [k \in 1..Len(RowsWritten) |->
                      <<s_sub \o RowsWritten[k].SID, RowsWritten[k].sex, RowsWritten[k].age>>]

\* the file loop of a unit is over in a second pass, and the sidecar of one
\* of the images of the unit is not in the working directory
LoopOverSidecarAbsent ==
    /\ pc = "files"
    /\ ~first_pass
    /\ broke \/ file_index = Len(filelist)
    /\ \E i \in 1..Len(filelist) : ~isfile(wfs, src_json_fname(filelist[i]))

\* the i-th file of the list has its sidecar, and the dictionary gives its
\* description a category that is neither excluded nor 'fmap'
ToBePlaced(i) ==
    /\ isfile(wfs, src_json_fname(filelist[i]))
    /\ DescAt(i) \in DOMAIN prot_dict
    /\ ~StartsWith(prot_dict[DescAt(i)][1], s_EXCLUDE)
    /\ prot_dict[DescAt(i)][1] # s_fmap

\* the output image of a series of unit u with dictionary entry entry and run
\* number run
ImageOf(u, entry, run) ==
    PathJoin(PathJoin(bids_src_ses_dir(u.SID, u.SES), entry[1]),
             bids_prefix(u.SID, u.SES) \o run_numbered(entry[2], run) \o s_niigz)

\* C12: in a second pass, when the sidecar of one series of a unit is not in
\* the working directory, every other series of the unit that is to be
\* placed, also one later in the file list, has its image in the output tree
\* once the file loop of the unit is over.
C12_MissingSidecarIsolated ==
    LoopOverSidecarAbsent =>
        \A i \in 1..Len(filelist) :
            ToBePlaced(i) =>
                isfile(dest, ImageOf(world.units[ui + 1], prot_dict[DescAt(i)], run_suffix[i]))

\* what the code does: the step that meets the missing sidecar leaves the
\* loop, and the files from there on are not handled
C12_LoopLeftAtMissingSidecar ==
    (pc = "files" /\ ~first_pass /\ broke) =>
        /\ file_index < Len(filelist)
        /\ ~isfile(wfs, src_json_fname(filelist[file_index + 1]))
        /\ \A i \in (file_index + 1)..Len(filelist) :
              ToBePlaced(i) =>
                  ~isfile(dest, ImageOf(world.units[ui + 1], prot_dict[DescAt(i)],
                                        run_suffix[i]))
              \/ isfile(start.dest, ImageOf(world.units[ui + 1], prot_dict[DescAt(i)],
                                            run_suffix[i]))

\* the loop was left at a missing sidecar with a series to be placed after it
C12_LaterSeriesLeftOut ==
    /\ pc = "files"
    /\ ~first_pass
    /\ broke
    /\ \E i \in (file_index + 2)..Len(filelist) :
          /\ ToBePlaced(i)
          /\ ~isfile(dest, ImageOf(world.units[ui + 1], prot_dict[DescAt(i)], run_suffix[i]))

\* a second pass is going on or has just ended
InSecondPass ==
    /\ pc \in {"units", "files", "done"}
    /\ start.pass = 2

\* C13: during and after a second pass every entry of the dictionary in
\* memory (category, suffix and linkedTo, also a linkedTo that is a list of
\* stems) equals the value loaded from the dictionary file when the run
\* started.
C13_MappingReadOnly ==
    InSecondPass => prot_dict = bids_load_prot_dict(start.protFile)

\* what the code does: the descriptions, the categories, the suffixes and the
\* linkedTo values that are strings stay as loaded; the file is not written
C13_OnlyListLinksChange ==
    InSecondPass =>
        /\ protFile = start.protFile
        /\ DOMAIN prot_dict = DOMAIN start.protFile.map
        /\ \A d \in DOMAIN prot_dict :
              /\ prot_dict[d][1] = start.protFile.map[d][1]
              /\ prot_dict[d][2] = start.protFile.map[d][2]
              /\ prot_dict[d][3].isstr = start.protFile.map[d][3].isstr
              /\ prot_dict[d][3].isstr => prot_dict[d][3] = start.protFile.map[d][3]

\* a series with a list of stems as linkedTo was organized, and the list in
\* memory is not the loaded one any more
C13_ListRewritten ==
    /\ InSecondPass
    /\ last.what = "organized"
    /\ ~last.entry[3].isstr
    /\ prot_dict[last.desc][3] # start.protFile.map[last.desc][3]

\* the step just taken visited a unit: it ran the converter for it, or read
\* the working directory as it was
Visited == last.what \in {"converted", "read"}

\* C14: in any run, first pass or second, the converter is not invoked for a
\* unit whose working directory exists when the unit is visited, and is
\* invoked for a unit whose working directory does not exist.
C14_ConvertedOnlyIfNew ==
    Visited => (last.what = "converted" <=> ~last.existed)

\* C14 (amended): in a second pass the converter is not invoked for a unit
\* whose working directory exists when the unit is visited and is invoked for
\* a unit whose working directory does not exist; in a first pass it is
\* invoked for every unit, whether the working directory exists or not.
C14_ConvertedIfFirstPassOrNew ==
    Visited => (last.what = "converted" <=> (start.pass = 1 \/ ~last.existed))

\* a first pass has run the converter for a unit whose working directory
\* existed
C14_Witness ==
    /\ Visited
    /\ start.pass = 1
    /\ last.existed
    /\ last.what = "converted"

\* a second pass has read the working directory of a unit without converting
C14_ReadSeen ==
    /\ Visited
    /\ start.pass = 2
    /\ last.existed
    /\ last.what = "read"

\* a second pass has converted a unit that had no working directory
C14_NewSeen ==
    /\ Visited
    /\ start.pass = 2
    /\ ~last.existed
    /\ last.what = "converted"

\* the step just taken handled, in a second pass, a series that has its
\* sidecar and whose description has no entry in the dictionary the run loaded
UnmappedSeries ==
    /\ last.what \in {"excluded", "organized", "crash"}
    /\ start.pass = 2
    /\ last.desc \notin DOMAIN start.protFile.map

\* C15: in a second pass a series whose description has no entry in the
\* loaded dictionary does not abort the run: the file loop goes on with the
\* next series of the unit.
C15_UnmappedNotFatal ==
    UnmappedSeries =>
        /\ last.exc = "none"
        /\ pc = "files"

\* what the code does: the run ends at that series with KeyError, and the
\* output tree is as it was before the series
C15_UnmappedAbortsRun ==
    UnmappedSeries =>
        /\ last.exc = "KeyError"
        /\ pc = "done"
        /\ exit = "KeyError"
        /\ dest = last.dest

\* the run has ended at an unmapped series with mapped series of the unit
\* still to be processed
C15_SeriesLeftOut ==
    /\ UnmappedSeries
    /\ pc = "done"
    /\ \E i \in (file_index + 2)..Len(filelist) : DescAt(i) \in DOMAIN prot_dict

\* the step just taken organized a functional echo-planar series, and its
\* output image was not in the output tree before
FunctionalOnEmpty ==
    /\ last.what = "organized"
    /\ last.plan.events
    /\ ~isfile(last.dest, last.plan.bids_nii_fname)

\* C16: for a functional echo-planar series, whatever the suffix the
\* dictionary gives it, the events file has a path other than the path of the
\* output image, and after the series is handled with no output image there
\* before, the output image holds the content of the source image.
C16_EventsBesideImage ==
    FunctionalOnEmpty =>
        /\ events_fname(last.plan.bids_nii_fname) # last.plan.bids_nii_fname
        /\ dest[last.plan.bids_nii_fname] = wfs[last.src]

\* what the code does: with an image name that ends in _bold.nii.gz the events
\* file is beside the image and the image is the source image; with another
\* name the events text is written at the path of the image, and the copy of
\* the image replaces it only when the overwrite flag is on
C16_EventsTakeImagePath ==
    FunctionalOnEmpty =>
        IF Contains(last.plan.bids_nii_fname, s_bold_nii)
        THEN /\ events_fname(last.plan.bids_nii_fname) # last.plan.bids_nii_fname
             /\ dest[events_fname(last.plan.bids_nii_fname)].kind = "events"
             /\ dest[last.plan.bids_nii_fname] = wfs[last.src]
        ELSE /\ events_fname(last.plan.bids_nii_fname) = last.plan.bids_nii_fname
             /\ dest[last.plan.bids_nii_fname] =
                   IF overwrite THEN wfs[last.src] ELSE [kind |-> "events", val |-> <<>>]

\* the output image of a functional series holds the events text
C16_EventsTextInImage ==
    /\ FunctionalOnEmpty
    /\ dest[last.plan.bids_nii_fname].kind = "events"

====
